---- MODULE Spec2Model ----
(***************************************************************************)
(* Note-range prober of the soundfont manager.                             *)
(*                                                                         *)
(* soundfont_utils.test_note_range renders single test notes through       *)
(* fluidsynth_helper.run_fluidsynth (which delegates to                    *)
(* sound_test.test_soundfont), classifies each rendered waveform with      *)
(* sound_test.is_silent_wav and derives (min_note, max_note, missing).     *)
(*                                                                         *)
(* One probe call is modelled step by step: one action per loop iteration  *)
(* of the function.  Everything outside the Python process (whether the    *)
(* soundfont file and the fluidsynth binary exist, which samples the       *)
(* soundfont holds, which render requests fail) is chosen in Init or by    *)
(* the environment at each render request.                                 *)
(***************************************************************************)
EXTENDS Integers, Sequences, FiniteSets, TLC

(***************************************************************************)
(* Bounds of the model.                                                    *)
(***************************************************************************)

\* Number of render requests, over one probe, at which the environment may
\* inject a fault of its own choosing, on top of the fault window of Init.
MaxFaults == 1

\* Fault windows <<lo, hi, holes>>: render requests for notes outside lo..hi
\* and for the notes of holes time out on every driver.  <<1, 0, {}>> is the
\* empty window (every request fails).
Windows ==
    { <<0, 127, {}>>, <<1, 0, {}>>, <<60, 60, {}>>, <<48, 60, {50, 55}>>,
      <<48, 72, {}>>, <<16, 72, {36}>>, <<36, 84, {}>>, <<72, 103, {}>> }

\* Soundfonts, each given by the set of pitches it holds samples for.
Soundfonts == { 0..127, 24..47 }

\* What the environment can do to one render request.
FaultKinds ==
    { "timeout",    \* no driver finishes: nothing is written
      "nofile",     \* the synthesizer exits 0 without writing its output
      "tiny",       \* the output is cut short at 100 bytes
      "silent",     \* the output holds only zero samples
      "corrupt",    \* the output cannot be decoded
      "tmpmidi",    \* test_soundfont cannot write its temporary MIDI file
      "notemidi" }  \* create_single_note_midi cannot write note_<n>.mid

(***************************************************************************)
(* soundfont_utils.py: note names.                                         *)
(***************************************************************************)

NOTE_NAMES == << "C", "C#", "D", "D#", "E", "F", "F#", "G", "G#", "A", "A#", "B" >>

\* str(octave) for the octaves of OCTAVE_RANGE = range(-1, 10)
OctaveText == << "-1", "0", "1", "2", "3", "4", "5", "6", "7", "8", "9" >>

MidiNumbers == 0..127

\* MIDI_TO_NOTE[midi_num] = f"{note_name}{octave}", midi_num = (octave+1)*12 + note_idx
MIDI_TO_NOTE(n) == NOTE_NAMES[(n % 12) + 1] \o OctaveText[(n \div 12) + 1]

\* NOTE_TO_MIDI = {v: k for k, v in MIDI_TO_NOTE.items()}
NOTE_TO_MIDI(name) == CHOOSE n \in MidiNumbers : MIDI_TO_NOTE(n) = name

(***************************************************************************)
(* State.                                                                  *)
(***************************************************************************)

VARIABLES
    module_globals,     \* helper names bound in the namespace of soundfont_utils
    sf_exists,          \* os.path.exists(soundfont_path)
    fluidsynth_ok,      \* `fluidsynth --version` can be run and exits 0
    soundfont,          \* pitches the soundfont holds samples for
    window,             \* fault window of the environment, <<lo, hi, holes>>
    faults,             \* faults the environment has injected so far
    pc,                 \* position of the probe in test_note_range
    i,                  \* index of the running loop (1-based)
    temp_dir,           \* TRUE while the directory made by mkdtemp exists
    midi_files,         \* note n |-> content of temp_dir/note_<n>.mid
    wav_files,          \* note n |-> content of temp_dir/note_<n>.wav
    playable_notes,     \* the dict playable_notes
    playable_midi_notes,
    min_midi,
    max_midi,
    test_within_range,
    missing_notes,
    last,               \* the last render request and what came of it
    log,                \* every classification made so far
    result,             \* what the call handed to its caller
    call,               \* the last application of a pure function
    timbre,             \* one call of analyze_timbre
    annotation,         \* one call of annotate_soundfont
    render,             \* one call of test_soundfont, subprocess by subprocess
    pair,               \* two probes sharing one file system
    catalog             \* a SoundfontManager and the operations on it

env_vars == << module_globals, sf_exists, fluidsynth_ok, soundfont, window >>

fs_vars == << temp_dir, midi_files, wav_files >>

range_vars == << playable_midi_notes, min_midi, max_midi, test_within_range >>

vars ==
    << module_globals, sf_exists, fluidsynth_ok, soundfont, window, faults, pc, i,
       temp_dir, midi_files, wav_files, playable_notes, playable_midi_notes,
       min_midi, max_midi, test_within_range, missing_notes, last, log, result,
       call, timbre, annotation, render, pair, catalog >>

\* What a probe leaves alone.
other_vars == << call, timbre, annotation, render, pair, catalog >>

\* The two functions of sound_test that test_note_range calls by bare name.
HelperNames == { "create_single_note_midi", "is_silent_wav" }

\* soundfont_utils imports neither helper (its imports bind run_fluidsynth and
\* simplified_midi_for_test only), so loaded as it stands its namespace binds
\* none of HelperNames.  The second namespace is the one of a process that
\* has bound both names to the functions of sound_test: only there does the
\* probe get past its first call.
Namespaces == { {}, HelperNames }

(***************************************************************************)
(* sound_test.py: the MIDI files and the silence test.                     *)
(***************************************************************************)

\* The notes pretty_midi writes; times in milliseconds.
MidiNote(pitch, start, end, velocity) ==
    [ pitch |-> pitch, start |-> start, end |-> end, velocity |-> velocity ]

\* simplified_midi_for_test: C4, E4, G4
simplified_midi_for_test ==
    << MidiNote(60, 0, 500, 80), MidiNote(64, 500, 1000, 80), MidiNote(67, 1000, 2000, 80) >>

\* create_single_note_midi: one note of one second
create_single_note_midi(note) == << MidiNote(note, 0, 1000, 100) >>

\* A WAV file: its size in bytes, whether librosa can decode it, and its
\* mono samples in thousandths of full scale.
Wav(size, decodable, samples) ==
    [ size |-> size, decodable |-> decodable, samples |-> samples ]

\* No file at the path.
NoWav == [ size |-> -1, decodable |-> FALSE, samples |-> << >> ]

\* os.path.exists(wav_path)
Exists(wav) == wav # NoWav

\* threshold: float = 0.01, in thousandths
SilenceThreshold == 10

\* np.sum(y**2)
RECURSIVE SumSquares(_)
SumSquares(y) == IF y = << >> THEN 0 ELSE Head(y) * Head(y) + SumSquares(Tail(y))

\* Variant: a waveform exactly at the threshold counts as silent.
RmsBelow_Inclusive(y, threshold) ==
    IF Len(y) = 0 \/ threshold < 0 THEN FALSE
    ELSE SumSquares(y) <= threshold * threshold * Len(y)

\* rms = np.sqrt(np.mean(y**2)); rms < threshold.  The mean of no samples is
\* NaN, and NaN is below nothing; a square root is below no negative number.
\* For threshold >= 0, sqrt(sum / n) < threshold iff sum < threshold^2 * n.
RmsBelow(y, threshold) ==
    IF Len(y) = 0 \/ threshold < 0 THEN FALSE
    ELSE SumSquares(y) < threshold * threshold * Len(y)

\* is_silent_wav(wav_file, threshold): any exception counts as silent
is_silent(wav, threshold) ==
    IF ~wav.decodable THEN TRUE ELSE RmsBelow(wav.samples, threshold)

\* is_silent_wav(wav_path), as test_note_range calls it
is_silent_wav(wav) == is_silent(wav, SilenceThreshold)

(***************************************************************************)
(* The external synthesizer, as test_soundfont runs it.                    *)
(***************************************************************************)

\* What `fluidsynth -ni -g 0.7 -F wav -a driver soundfont midi` leaves at the
\* output path: the rendering of the MIDI file it is given, unless the
\* environment interferes.  NoWav: nothing was written.
Synthesize(midi, fault) ==
    CASE fault \in { "timeout", "nofile" } -> NoWav
      [] fault = "tiny"    -> Wav(100, TRUE, << 150, -150 >>)
      [] fault = "silent"  -> Wav(88244, TRUE, << 0, 0 >>)
      [] fault = "corrupt" -> Wav(88244, FALSE, << >>)
      [] fault = "empty"   -> Wav(44, TRUE, << >>)
      [] OTHER ->
            IF \E k \in 1..Len(midi) : midi[k].pitch \in soundfont
            THEN Wav(88244, TRUE, << 150, -150 >>)
            ELSE Wav(88244, TRUE, << 0, 0 >>)

\* result.returncode == 0 for some driver of working_drivers
ExitsZero(fault) == fault # "timeout"

\* test_soundfont(soundfont_path, False, wav_output) with a file `old` at
\* wav_output: (success, wav), the MIDI file handed to the synthesizer (<< >>
\* if it was never started) and the file at wav_output afterwards.
test_soundfont(old, fault) ==
    LET unstarted == [ success |-> FALSE, invoked |-> FALSE, synth_midi |-> << >>, wav |-> old ]
        written   == Synthesize(simplified_midi_for_test, fault)
        after     == IF written = NoWav THEN old ELSE written
    IN  IF ~sf_exists THEN unstarted
        ELSE IF ~fluidsynth_ok THEN unstarted
        ELSE IF fault = "tmpmidi" THEN unstarted
        ELSE [ success    |-> ExitsZero(fault) /\ Exists(after) /\ after.size > 0,
               invoked    |-> TRUE,
               synth_midi |-> simplified_midi_for_test,
               wav        |-> after ]

(***************************************************************************)
(* fluidsynth_helper.py                                                    *)
(***************************************************************************)

\* run_fluidsynth(sf2_path, midi_file, output_wav): rendering mode
run_fluidsynth(midi_file, old, fault) == test_soundfont(old, fault)

(***************************************************************************)
(* soundfont_utils.test_note_range                                         *)
(***************************************************************************)

test_notes == << 24, 36, 48, 60, 72, 84, 96 >>

low_extension == << 12, 16, 19, 21 >>

high_extension == << 100, 103, 108 >>

\* success and os.path.exists(wav_path) and os.path.getsize(wav_path) > 100
HasContent(success, wav) == success /\ Exists(wav) /\ wav.size > 100

\* the note is marked playable: the WAV has content and is not silent
Playable(success, wav) == HasContent(success, wav) /\ ~is_silent_wav(wav)

\* Variant: the gate asks whether the note was tested, not whether it is playable.
Get_Present(dict, note) == note \in DOMAIN dict

\* playable_notes.get(note, False)
Get(dict, note) == IF note \in DOMAIN dict THEN dict[note] ELSE FALSE

\* dict[note] = value
Put(dict, note, value) ==
    [ n \in DOMAIN dict \cup { note } |-> IF n = note THEN value ELSE dict[n] ]

\* Variant: every tested note counts, whatever its classification.
PlayableMidiNotes_AllTested(dict) == DOMAIN dict

\* [note for note, is_playable in playable_notes.items() if is_playable]
PlayableMidiNotes(dict) == { n \in DOMAIN dict : dict[n] }

Min(S) == CHOOSE n \in S : \A m \in S : n <= m

Max(S) == CHOOSE n \in S : \A m \in S : n >= m

\* Variant: every note of the span is sampled.
Step_Always1(lo, hi) == 1

\* Variant: the wide stride already at a span of 24.
Step_From24(lo, hi) == IF (hi - lo) >= 24 THEN 3 ELSE 1

\* step = 3 if (max_midi - min_midi) > 24 else 1
Step(lo, hi) == IF (hi - lo) > 24 THEN 3 ELSE 1

\* Variant: the range starts one step below lo.
RangeList_FromBelow(lo, hi, step) ==
    [ k \in 1..(((hi - lo) \div step) + 2) |-> lo + (k - 2) * step ]

\* Variant: the range runs one step past hi.
RangeList_PastEnd(lo, hi, step) ==
    [ k \in 1..(((hi - lo) \div step) + 2) |-> lo + (k - 1) * step ]

\* range(lo, hi + 1, step) as a list
RangeList(lo, hi, step) ==
    [ k \in 1..(((hi - lo) \div step) + 1) |-> lo + (k - 1) * step ]

\* Variant: notes already playable are sampled again.
TestWithinRange_Unfiltered(lo, hi, playable) == RangeList(lo, hi, Step(lo, hi))

\* the notes of range(min_midi, max_midi + 1, step) not in playable_midi_notes
TestWithinRange(lo, hi, playable) ==
    SelectSeq(RangeList(lo, hi, Step(lo, hi)), LAMBDA n : n \notin playable)

\* sorted(missing_notes)
Sorted(s) == SortSeq(s, LAMBDA a, b : a < b)

\* [MIDI_TO_NOTE.get(n, ...) for n in sorted(missing_notes)]
MissingNoteNames(s) == [ k \in 1..Len(s) |-> MIDI_TO_NOTE(Sorted(s)[k]) ]

NoResult == [ kind |-> "none" ]

Returned(lo, hi, missing) ==
    [ kind |-> "returned", min_note |-> lo, max_note |-> hi, missing |-> missing ]

Raised(error) == [ kind |-> "raised", error |-> error ]

\* Variant: the fallback names no note.
FallbackResult_NoNote == Returned("", "", << >>)

\* Variant: the fallback is the default range of MappedNotes.
FallbackResult_DefaultRange == Returned("C0", "C8", << >>)

\* return "C4", "C4", []  # Default fallback
FallbackResult == Returned("C4", "C4", << >>)

\* return min_note, max_note, missing_note_names
RangeResult(dict, missing) ==
    Returned(MIDI_TO_NOTE(Min(PlayableMidiNotes(dict))),
             MIDI_TO_NOTE(Max(PlayableMidiNotes(dict))),
             MissingNoteNames(missing))

(***************************************************************************)
(* One pass through the body of a note loop, up to the classification:     *)
(*     create_single_note_midi(midi_path, note)                            *)
(*     success = run_fluidsynth(soundfont_path, midi_path, wav_path)       *)
(*     if success and exists and size > 100: ... is_silent_wav(wav_path)   *)
(* A bare name that module_globals does not bind raises NameError.         *)
(***************************************************************************)

\* What the environment does to a request it leaves alone.
Base(note) ==
    IF note \in (window[1]..window[2]) \ window[3] THEN "none" ELSE "timeout"

\* What the environment may do to the render request for `note`.
Choices(note) ==
    { Base(note) } \cup (IF Base(note) = "none" /\ faults < MaxFaults THEN FaultKinds ELSE {})

OldWav(note) == IF note \in DOMAIN wav_files THEN wav_files[note] ELSE NoWav

Request(note, fault) ==
    LET r == run_fluidsynth(note, OldWav(note), fault)
    IN  IF "create_single_note_midi" \notin module_globals
        THEN [ error |-> "NameError", started |-> FALSE, invoked |-> FALSE,
               synth_midi |-> << >>, success |-> FALSE, wav |-> OldWav(note),
               playable |-> FALSE ]
        ELSE [ error      |-> IF HasContent(r.success, r.wav) /\ "is_silent_wav" \notin module_globals
                              THEN "NameError" ELSE "none",
               started    |-> TRUE,
               invoked    |-> r.invoked,
               synth_midi |-> r.synth_midi,
               success    |-> r.success,
               wav        |-> r.wav,
               playable   |-> Playable(r.success, r.wav) ]

NoRequest ==
    [ note |-> -1, phase |-> "none", fault |-> "none", error |-> "none",
      invoked |-> FALSE, synth_midi |-> << >>, success |-> FALSE, wav |-> NoWav,
      playable |-> FALSE, requests |-> 0 ]

\* Files, bookkeeping and the exception of one request.
Effects(note, phase, fault, out) ==
    /\ faults' = IF fault = Base(note) THEN faults ELSE faults + 1
    /\ midi_files' = IF out.started /\ fault # "notemidi"
                     THEN Put(midi_files, note, create_single_note_midi(note))
                     ELSE midi_files
    /\ wav_files' = IF Exists(out.wav) THEN Put(wav_files, note, out.wav) ELSE wav_files
    /\ last' = [ note |-> note, phase |-> phase, fault |-> fault, error |-> out.error,
                 invoked |-> out.invoked, synth_midi |-> out.synth_midi,
                 success |-> out.success, wav |-> out.wav, playable |-> out.playable,
                 requests |-> IF out.started THEN last.requests + 1 ELSE last.requests ]
    /\ IF out.error # "none"
       THEN /\ result' = Raised(out.error)
            /\ log' = log
       ELSE /\ result' = result
            /\ log' = log \cup { [ note |-> note, phase |-> phase, playable |-> out.playable ] }

\* The exception leaves the function.
Abort ==
    /\ pc' = "done"
    /\ UNCHANGED << i, playable_notes, missing_notes >>

\* playable_notes[note] = True / False, in Phases 1 and 2
Mark(dict, note, playable) == Put(dict, note, playable)

\* Phase 3: playable_notes[note] = True, or the note is left as it was
MarkGap(dict, note, playable) == IF playable THEN Put(dict, note, TRUE) ELSE dict

\* Variant: every sampled note is appended.
AppendMissing_Always(missing, note, playable) == Append(missing, note)

\* Phase 3: missing_notes.append(note) unless the note is playable
AppendMissing(missing, note, playable) ==
    IF playable THEN missing ELSE Append(missing, note)

(***************************************************************************)
(* Actions.                                                                *)
(***************************************************************************)

\* No pure function applied, no timbre analysis or annotation under way.
NoCall == [ fn |-> "none" ]

NoTimbre ==
    [ pc |-> "idle", temp_dir |-> FALSE, wav |-> NoWav, fault |-> "none",
      invoked |-> FALSE, loaded |-> NoWav, threw |-> FALSE, result |-> NoResult ]

\* A SoundfontManager with no record, and no annotation started.
NoAnnotation ==
    [ pc |-> "idle", mode |-> "basic", insert_data |-> FALSE,
      quality_threshold |-> << >>, test_note_range |-> FALSE,
      summary |-> << >>, auto_metadata |-> << >>, edited |-> FALSE,
      manager |-> [ soundfonts |-> << >>, next_id |-> 1 ],
      result |-> NoResult ]

\* A subprocess.run in progress: what it runs, the driver it runs with, its
\* timeout argument in seconds (0: none was given) and whether the child
\* hangs, that is never exits by itself.
Process(cmd, driver, timeout, hangs) ==
    [ cmd |-> cmd, driver |-> driver, timeout |-> timeout, hangs |-> hangs ]

NoProcess == Process("none", "", 0, FALSE)

\* One call of test_soundfont: where it stands, whether the caller gave
\* wav_output, temp_wav, temp_files, the files that exist, the drivers still
\* to check, working_drivers, the drivers still to render with, the
\* subprocess being waited for and what the caller got.
NoRender ==
    [ pc |-> "idle", wav_output |-> FALSE, temp_wav |-> "", temp_files |-> {},
      files |-> {}, unchecked |-> << >>, working_drivers |-> << >>,
      untried |-> << >>, running |-> NoProcess,
      result |-> [ kind |-> "none" ] ]

\* Two invocations that have not begun, on an empty file system.
NoPair == [ pc |-> "idle", fs |-> << >>, foreign |-> {}, proc |-> << >> ]

NoCatalog ==
    [ pc |-> "idle", soundfonts |-> << >>, next_id |-> 1, indices |-> << >>,
      removed |-> {} ]

Init ==
    /\ module_globals \in Namespaces
    /\ sf_exists \in BOOLEAN
    /\ fluidsynth_ok \in BOOLEAN
    /\ soundfont \in Soundfonts
    /\ window \in Windows
    /\ faults = 0
    /\ pc = "idle"
    /\ i = 1
    /\ temp_dir = FALSE
    /\ midi_files = << >>
    /\ wav_files = << >>
    /\ playable_notes = << >>
    /\ playable_midi_notes = {}
    /\ min_midi = -1
    /\ max_midi = -1
    /\ test_within_range = << >>
    /\ missing_notes = << >>
    /\ last = NoRequest
    /\ log = {}
    /\ result = NoResult
    /\ call = NoCall
    /\ timbre = NoTimbre
    /\ annotation = NoAnnotation
    /\ render = NoRender
    /\ pair = NoPair
    /\ catalog = NoCatalog

\* test_note_range(soundfont_path): temp_dir = tempfile.mkdtemp()
Call ==
    /\ pc = "idle"
    /\ temp_dir' = TRUE
    /\ pc' = "seed"
    /\ i' = 1
    /\ UNCHANGED << env_vars, faults, midi_files, wav_files, playable_notes,
                    range_vars, missing_notes, last, log, result >>
    /\ UNCHANGED other_vars

\* Phase 1: for note in test_notes
SeedSweep ==
    /\ pc = "seed"
    /\ LET note == test_notes[i] IN
       \E fault \in Choices(note) :
          LET out == Request(note, fault) IN
          /\ Effects(note, "seed", fault, out)
          /\ IF out.error # "none" THEN Abort
             ELSE /\ playable_notes' = Mark(playable_notes, note, out.playable)
                  /\ missing_notes' = missing_notes
                  /\ IF i < Len(test_notes)
                     THEN pc' = pc /\ i' = i + 1
                     ELSE pc' = "low" /\ i' = 1
    /\ UNCHANGED << env_vars, temp_dir, range_vars >>
    /\ UNCHANGED other_vars

\* Phase 2: if playable_notes.get(24, False): for note in [12, 16, 19, 21]
LowExtension ==
    /\ pc = "low"
    /\ IF ~Get(playable_notes, 24)
       THEN /\ pc' = "high"
            /\ UNCHANGED << i, faults, midi_files, wav_files, playable_notes,
                            missing_notes, last, log, result >>
       ELSE LET note == low_extension[i] IN
            \E fault \in Choices(note) :
               LET out == Request(note, fault) IN
               /\ Effects(note, "low", fault, out)
               /\ IF out.error # "none" THEN Abort
                  ELSE /\ playable_notes' = Mark(playable_notes, note, out.playable)
                       /\ missing_notes' = missing_notes
                       /\ IF i < Len(low_extension)
                          THEN pc' = pc /\ i' = i + 1
                          ELSE pc' = "high" /\ i' = 1
    /\ UNCHANGED << env_vars, temp_dir, range_vars >>
    /\ UNCHANGED other_vars

\* Phase 2: if playable_notes.get(96, False): for note in [100, 103, 108]
HighExtension ==
    /\ pc = "high"
    /\ IF ~Get(playable_notes, 96)
       THEN /\ pc' = "decide"
            /\ UNCHANGED << i, faults, midi_files, wav_files, playable_notes,
                            missing_notes, last, log, result >>
       ELSE LET note == high_extension[i] IN
            \E fault \in Choices(note) :
               LET out == Request(note, fault) IN
               /\ Effects(note, "high", fault, out)
               /\ IF out.error # "none" THEN Abort
                  ELSE /\ playable_notes' = Mark(playable_notes, note, out.playable)
                       /\ missing_notes' = missing_notes
                       /\ IF i < Len(high_extension)
                          THEN pc' = pc /\ i' = i + 1
                          ELSE pc' = "decide" /\ i' = 1
    /\ UNCHANGED << env_vars, temp_dir, range_vars >>
    /\ UNCHANGED other_vars

\* playable_midi_notes, min_midi, max_midi, test_within_range; or the fallback
Decide ==
    /\ pc = "decide"
    /\ LET playable == PlayableMidiNotes(playable_notes) IN
       IF playable # {}
       THEN /\ playable_midi_notes' = playable
            /\ min_midi' = Min(playable)
            /\ max_midi' = Max(playable)
            /\ test_within_range' = TestWithinRange(Min(playable), Max(playable), playable)
            /\ pc' = "gap"
            /\ i' = 1
            /\ result' = result
       ELSE /\ playable_midi_notes' = playable
            /\ result' = FallbackResult
            /\ pc' = "done"
            /\ UNCHANGED << i, min_midi, max_midi, test_within_range >>
    /\ UNCHANGED << env_vars, faults, fs_vars, playable_notes, missing_notes, last, log >>
    /\ UNCHANGED other_vars

\* Phase 3: for note in test_within_range
GapSample ==
    /\ pc = "gap"
    /\ i <= Len(test_within_range)
    /\ LET note == test_within_range[i] IN
       \E fault \in Choices(note) :
          LET out == Request(note, fault) IN
          /\ Effects(note, "gap", fault, out)
          /\ IF out.error # "none" THEN Abort
             ELSE /\ playable_notes' = MarkGap(playable_notes, note, out.playable)
                  /\ missing_notes' = AppendMissing(missing_notes, note, out.playable)
                  /\ pc' = pc
                  /\ i' = i + 1
    /\ UNCHANGED << env_vars, temp_dir, range_vars >>
    /\ UNCHANGED other_vars

\* min/max over all tests; return min_note, max_note, missing_note_names
Return ==
    /\ pc = "gap"
    /\ i > Len(test_within_range)
    /\ playable_midi_notes' = PlayableMidiNotes(playable_notes)
    /\ min_midi' = Min(PlayableMidiNotes(playable_notes))
    /\ max_midi' = Max(PlayableMidiNotes(playable_notes))
    /\ result' = RangeResult(playable_notes, missing_notes)
    /\ pc' = "done"
    /\ UNCHANGED << env_vars, faults, i, fs_vars, playable_notes, test_within_range,
                    missing_notes, last, log >>
    /\ UNCHANGED other_vars

Next ==
    \/ Call
    \/ SeedSweep
    \/ LowExtension
    \/ HighExtension
    \/ Decide
    \/ GapSample
    \/ Return

Spec == Init /\ [][Next]_vars

(***************************************************************************)
(* The pure functions, each applied to inputs drawn from bounded sets.     *)
(***************************************************************************)

\* Longest waveform handed to is_silent_wav.
MaxSamples == 3

\* How far around each threshold the sampled values reach.
Slack == 1

\* Sample values, in thousandths of full scale.
SampleValues == { -10, 0, 5, 10, 20 }

Waveforms == UNION { [ 1..n -> SampleValues ] : n \in 0..MaxSamples }

\* Silence thresholds, in thousandths of full scale.
Thresholds == { 0, SilenceThreshold, 20 }

\* dict.get(key, default)
DictGet(dict, key, default) == IF key \in DOMAIN dict THEN dict[key] ELSE default

Around(limits) == { 0 } \cup UNION { (t - Slack)..(t + Slack) : t \in limits }

\* Variant: a value equal to a threshold stays in the lower category.
RECURSIVE map_value_to_category_Inclusive(_, _, _)
map_value_to_category_Inclusive(value, thresholds, categories) ==
    IF thresholds = << >> THEN categories[Len(categories)]
    ELSE IF value <= Head(thresholds) THEN categories[1]
    ELSE map_value_to_category_Inclusive(value, Tail(thresholds), Tail(categories))

\* map_value_to_category: the category of the first threshold above the
\* value, the last category when there is none.
RECURSIVE map_value_to_category(_, _, _)
map_value_to_category(value, thresholds, categories) ==
    IF thresholds = << >> THEN categories[Len(categories)]
    ELSE IF value < Head(thresholds) THEN categories[1]
    ELSE map_value_to_category(value, Tail(thresholds), Tail(categories))

\* The thresholds and labels analyze_timbre passes for its four measures:
\* spectral centroid and bandwidth in Hz, zero crossing rate times 10000,
\* and the harmonic ratio, kept here in tenths (0.5, 2, 5).
TimbreScales ==
    [ brightness |->
        [ thresholds |-> << 500, 1500, 3000 >>,
          categories |-> << "dark", "medium", "bright", "very bright" >> ],
      richness |->
        [ thresholds |-> << 500, 1500, 3000 >>,
          categories |-> << "simple", "medium", "rich", "very rich" >> ],
      attack |->
        [ thresholds |-> << 50, 150, 300 >>,
          categories |-> << "soft", "medium", "hard", "aggressive" >> ],
      harmonic_quality |->
        [ thresholds |-> << 5, 20, 50 >>,
          categories |-> << "percussive", "balanced", "harmonic", "very harmonic" >> ] ]

Range(seq) == { seq[k] : k \in 1..Len(seq) }

\* Variant: a file of exactly 30 MB already counts as large.
SizeFactor_Inclusive(size_mb) ==
    IF size_mb >= 3000 THEN 2 ELSE IF size_mb > 1000 THEN 1 ELSE 0

\* suggest_quality, size evaluation (size_mb in hundredths of a megabyte)
SizeFactor(size_mb) ==
    IF size_mb > 3000 THEN 2 ELSE IF size_mb > 1000 THEN 1 ELSE 0

\* suggest_quality, sample rate evaluation
SampleRateFactor(sample_rate) ==
    IF sample_rate >= 44100 THEN 2 ELSE IF sample_rate >= 22050 THEN 1 ELSE 0

\* suggest_quality, bit depth evaluation
BitDepthFactor(bit_depth) ==
    IF bit_depth >= 24 THEN 2 ELSE IF bit_depth >= 16 THEN 1 ELSE 0

\* suggest_quality, note coverage evaluation (mapped_notes is always a dict:
\* MappedNotes.to_dict() or the summary of a probe)
CoverageFactor(mapped_notes) ==
    LET missing == DictGet(mapped_notes, "missing_notes", << >>)
    IN  IF Len(missing) < 5 THEN 2 ELSE IF Len(missing) < 20 THEN 1 ELSE 0

\* suggest_quality: total_score / 8 >= 0.7 is high, >= 0.4 is medium
suggest_quality(metadata) ==
    LET total_score ==
            SizeFactor(DictGet(metadata, "size_mb", 0))
          + SampleRateFactor(DictGet(metadata, "sample_rate", 0))
          + BitDepthFactor(DictGet(metadata, "bit_depth", 0))
          + CoverageFactor(DictGet(metadata, "mapped_notes", << >>))
    IN  IF 10 * total_score >= 7 * 8 THEN "high"
        ELSE IF 10 * total_score >= 4 * 8 THEN "medium"
        ELSE "low"

\* The characters of the names of NOTE_NAMES and of the octaves -1..9.
NoteSpelling ==
    << << "C" >>, << "C", "#" >>, << "D" >>, << "D", "#" >>, << "E" >>, << "F" >>,
       << "F", "#" >>, << "G" >>, << "G", "#" >>, << "A" >>, << "A", "#" >>, << "B" >> >>

OctaveSpelling ==
    << << "-", "1" >>, << "0" >>, << "1" >>, << "2" >>, << "3" >>, << "4" >>,
       << "5" >>, << "6" >>, << "7" >>, << "8" >>, << "9" >> >>

\* MIDI_TO_NOTE[n], character by character
Spelling(n) == NoteSpelling[(n % 12) + 1] \o OctaveSpelling[(n \div 12) + 1]

\* The string a sequence of characters spells.
RECURSIVE Text(_)
Text(chars) == IF chars = << >> THEN "" ELSE Head(chars) \o Text(Tail(chars))

\* MusicGenerator.NOTE_NAME_TO_MIDI
NOTE_NAME_TO_MIDI ==
    ("C" :> 0) @@ ("C#" :> 1) @@ ("Db" :> 1) @@ ("D" :> 2) @@ ("D#" :> 3) @@
    ("Eb" :> 3) @@ ("E" :> 4) @@ ("F" :> 5) @@ ("F#" :> 6) @@ ("Gb" :> 6) @@
    ("G" :> 7) @@ ("G#" :> 8) @@ ("Ab" :> 8) @@ ("A" :> 9) @@ ("A#" :> 10) @@
    ("Bb" :> 10) @@ ("B" :> 11)

DigitChars == << "0", "1", "2", "3", "4", "5", "6", "7", "8", "9" >>

Digit(char) == (CHOOSE k \in 1..Len(DigitChars) : DigitChars[k] = char) - 1

RECURSIVE Decimal(_)
Decimal(chars) ==
    IF chars = << >> THEN 0
    ELSE 10 * Decimal(SubSeq(chars, 1, Len(chars) - 1)) + Digit(chars[Len(chars)])

\* int(text) for an optionally signed decimal numeral
int(chars) == IF Head(chars) = "-" THEN 0 - Decimal(Tail(chars)) ELSE Decimal(chars)

\* Variant: octave 0 starts at MIDI number 0.
note_name_to_midi_number_NoOffset(note_name) ==
    LET accidental == Len(note_name) >= 2 /\ note_name[2] \in { "#", "b" }
        pitch_class == IF accidental THEN SubSeq(note_name, 1, 2)
                       ELSE SubSeq(note_name, 1, 1)
        rest == IF accidental THEN SubSeq(note_name, 3, Len(note_name))
                ELSE SubSeq(note_name, 2, Len(note_name))
        octave == IF rest = << >> THEN 4 ELSE int(rest)
    IN  12 * octave + NOTE_NAME_TO_MIDI[Text(pitch_class)]

\* MusicGenerator.note_name_to_midi_number
note_name_to_midi_number(note_name) ==
    LET accidental == Len(note_name) >= 2 /\ note_name[2] \in { "#", "b" }
        pitch_class == IF accidental THEN SubSeq(note_name, 1, 2)
                       ELSE SubSeq(note_name, 1, 1)
        rest == IF accidental THEN SubSeq(note_name, 3, Len(note_name))
                ELSE SubSeq(note_name, 2, Len(note_name))
        octave == IF rest = << >> THEN 4 ELSE int(rest)
    IN  12 * (octave + 1) + NOTE_NAME_TO_MIDI[Text(pitch_class)]

\* The state of a program in which no probe has been started.
ProbeIdle ==
    /\ faults = 0
    /\ pc = "idle"
    /\ i = 1
    /\ temp_dir = FALSE
    /\ midi_files = << >>
    /\ wav_files = << >>
    /\ playable_notes = << >>
    /\ playable_midi_notes = << >>
    /\ min_midi = -1
    /\ max_midi = -1
    /\ test_within_range = << >>
    /\ missing_notes = << >>
    /\ last = NoRequest
    /\ log = {}
    /\ result = NoResult

probe_vars ==
    << env_vars, faults, pc, i, fs_vars, playable_notes, range_vars, missing_notes,
       last, log, result >>

InitFunctions ==
    /\ module_globals = {}
    /\ sf_exists = TRUE
    /\ fluidsynth_ok = TRUE
    /\ soundfont = 0..127
    /\ window = << 0, 127, {} >>
    /\ ProbeIdle
    /\ call = NoCall
    /\ timbre = NoTimbre
    /\ annotation = NoAnnotation
    /\ render = NoRender
    /\ pair = NoPair
    /\ catalog = NoCatalog

\* is_silent_wav(wav_file, threshold) on a file that decodes to y, or on one
\* that does not decode.
IsSilentWav ==
    /\ call = NoCall
    /\ \E y \in Waveforms, threshold \in Thresholds, decodable \in BOOLEAN :
        LET wav == Wav(44 + 2 * Len(y), decodable, y)
        IN  /\ call' = [ fn |-> "is_silent_wav", wav |-> wav, threshold |-> threshold,
                         ret |-> is_silent(wav, threshold) ]
            /\ UNCHANGED << probe_vars, timbre, annotation, render, pair, catalog >>

\* map_value_to_category(value, thresholds, categories) with the thresholds
\* and labels of one of the four timbre measures.
MapValueToCategory ==
    /\ call = NoCall
    /\ \E measure \in DOMAIN TimbreScales :
        LET thresholds == TimbreScales[measure].thresholds
            categories == TimbreScales[measure].categories
        IN  \E value \in Around(Range(thresholds)) :
                /\ call' = [ fn |-> "map_value_to_category", value |-> value,
                             thresholds |-> thresholds, categories |-> categories,
                             ret |-> map_value_to_category(value, thresholds, categories) ]
                /\ UNCHANGED << probe_vars, timbre, annotation, render, pair, catalog >>

\* Inputs of suggest_quality around each of its thresholds.
SizesMb == Around({ 1000, 3000 }) \cup { 500, 3500 }

SampleRates == Around({ 22050, 44100 })

BitDepths == Around({ 16, 24 })

MissingCounts == Around({ 5, 20 }) \cup { 2, 25 }

\* suggest_quality(metadata)
SuggestQuality ==
    /\ call = NoCall
    /\ \E size_mb \in SizesMb, sample_rate \in SampleRates, bit_depth \in BitDepths,
       count \in MissingCounts :
        LET metadata ==
                [ size_mb |-> size_mb, sample_rate |-> sample_rate,
                  bit_depth |-> bit_depth,
                  mapped_notes |->
                      [ min_note |-> "C0", max_note |-> "C8",
                        missing_notes |-> [ k \in 1..count |-> MIDI_TO_NOTE(k) ] ] ]
        IN  /\ call' = [ fn |-> "suggest_quality", metadata |-> metadata,
                         ret |-> suggest_quality(metadata) ]
            /\ UNCHANGED << probe_vars, timbre, annotation, render, pair, catalog >>

\* MIDI_TO_NOTE[n], NOTE_TO_MIDI of that name, and note_name_to_midi_number
\* of that name.
NoteNameToMidiNumber ==
    /\ call = NoCall
    /\ \E n \in MidiNumbers :
        /\ call' = [ fn |-> "note_name_to_midi_number", n |-> n,
                     name |-> MIDI_TO_NOTE(n), chars |-> Spelling(n),
                     back |-> NOTE_TO_MIDI(MIDI_TO_NOTE(n)),
                     ret |-> note_name_to_midi_number(Spelling(n)) ]
        /\ UNCHANGED << probe_vars, timbre, annotation, render, pair, catalog >>

NextFunctions ==
    \/ IsSilentWav
    \/ MapValueToCategory
    \/ SuggestQuality
    \/ NoteNameToMidiNumber

SpecFunctions == InitFunctions /\ [][NextFunctions]_vars

(***************************************************************************)
(* soundfont_utils.analyze_timbre                                          *)
(***************************************************************************)

\* What the environment can do to the one render of a timbre analysis.
TimbreFaults ==
    { "none", "timeout", "nofile", "tiny", "silent", "corrupt", "empty", "tmpmidi",
      "mkdtemp" }    \* tempfile.mkdtemp() fails

\* default_timbre
default_timbre ==
    [ brightness |-> "medium", richness |-> "medium", attack |-> "medium",
      harmonic_quality |-> "balanced", spectral_centroid |-> 0,
      spectral_bandwidth |-> 0, spectral_rolloff |-> 0, zero_crossing_rate |-> 0,
      mfcc_features |-> [ k \in 1..13 |-> 0 ] ]

\* Values a measure can take: none, and at and just below each threshold.
Readings(thresholds) ==
    { 0 } \cup Range(thresholds) \cup { t - 1 : t \in Range(thresholds) }

\* What librosa measures on a waveform: centroid, bandwidth and rolloff in Hz,
\* the zero crossing rate times 10000, the harmonic ratio in tenths, and the
\* mean of each of 13 MFCCs.
Features ==
    [ spectral_centroid  : Readings(TimbreScales.brightness.thresholds),
      spectral_bandwidth : Readings(TimbreScales.richness.thresholds),
      spectral_rolloff   : { 0, 4000 },
      zero_crossing_rate : Readings(TimbreScales.attack.thresholds),
      harmonic_ratio     : Readings(TimbreScales.harmonic_quality.thresholds),
      mfcc_features      : { [ k \in 1..13 |-> 0 ], [ k \in 1..13 |-> 0 - k ] } ]

\* The dict analyze_timbre builds from the features of a waveform.
Classify(f) ==
    [ brightness |->
          map_value_to_category(f.spectral_centroid,
              TimbreScales.brightness.thresholds, TimbreScales.brightness.categories),
      richness |->
          map_value_to_category(f.spectral_bandwidth,
              TimbreScales.richness.thresholds, TimbreScales.richness.categories),
      attack |->
          map_value_to_category(f.zero_crossing_rate,
              TimbreScales.attack.thresholds, TimbreScales.attack.categories),
      harmonic_quality |->
          map_value_to_category(f.harmonic_ratio,
              TimbreScales.harmonic_quality.thresholds,
              TimbreScales.harmonic_quality.categories),
      spectral_centroid |-> f.spectral_centroid,
      spectral_bandwidth |-> f.spectral_bandwidth,
      spectral_rolloff |-> f.spectral_rolloff,
      zero_crossing_rate |-> f.zero_crossing_rate,
      mfcc_features |-> f.mfcc_features ]

\* Variant: only a waveform of no samples is set aside.
Unusable_EmptyOnly(y) == Len(y) = 0

\* len(y) == 0 or np.all(y == 0)
Unusable(y) == Len(y) = 0 \/ \A k \in 1..Len(y) : y[k] = 0

\* return <dict>
Profile(value) == [ kind |-> "returned", value |-> value ]

\* The timbre analysis as a record: where it stands, whether its temporary
\* directory exists, the file at timbre_analysis.wav, what happened to the
\* render, the file librosa was given, whether the analysis threw, and what
\* the caller got.
Timbre(at, dir, wav, fault, invoked, loaded, threw, outcome) ==
    [ pc |-> at, temp_dir |-> dir, wav |-> wav, fault |-> fault,
      invoked |-> invoked, loaded |-> loaded, threw |-> threw, result |-> outcome ]

InitTimbre ==
    /\ module_globals = {}
    /\ sf_exists \in BOOLEAN
    /\ fluidsynth_ok \in BOOLEAN
    /\ soundfont \in Soundfonts
    /\ window = << 0, 127, {} >>
    /\ ProbeIdle
    /\ call = NoCall
    /\ timbre = NoTimbre
    /\ annotation = NoAnnotation
    /\ render = NoRender
    /\ pair = NoPair
    /\ catalog = NoCatalog

\* analyze_timbre up to the render: the temporary directory is made and
\* test_soundfont renders the test chord into it.  A failed mkdtemp or a
\* failed render ends the call with default_timbre, through the finally
\* clause that removes the directory.
TimbreRender ==
    /\ timbre.pc = "idle"
    /\ \E fault \in TimbreFaults :
        LET out == test_soundfont(NoWav, fault)
        IN  timbre' =
              IF fault = "mkdtemp"
              THEN Timbre("done", FALSE, NoWav, fault, FALSE, NoWav, FALSE,
                          Profile(default_timbre))
              ELSE IF ~out.success
              THEN Timbre("done", FALSE, NoWav, fault, out.invoked, NoWav, FALSE,
                          Profile(default_timbre))
              ELSE Timbre("analyze", TRUE, out.wav, fault, out.invoked, NoWav, FALSE,
                          NoResult)
    /\ UNCHANGED << probe_vars, call, annotation, render, pair, catalog >>

\* analyze_timbre from librosa.load on: a file that does not decode or an
\* analysis that throws, and a waveform that is empty or all zero, end the
\* call with default_timbre; otherwise the features are classified.  Every
\* way out runs the finally clause, which removes the directory.
TimbreAnalyze ==
    /\ timbre.pc = "analyze"
    /\ \E throws \in BOOLEAN, f \in Features :
        LET y == timbre.wav.samples
            outcome ==
                IF ~timbre.wav.decodable THEN default_timbre
                ELSE IF Unusable(y) THEN default_timbre
                ELSE IF throws THEN default_timbre
                ELSE Classify(f)
        IN  timbre' = Timbre("done", FALSE, NoWav, timbre.fault, timbre.invoked,
                             timbre.wav, throws, Profile(outcome))
    /\ UNCHANGED << probe_vars, call, annotation, render, pair, catalog >>

NextTimbre ==
    \/ TimbreRender
    \/ TimbreAnalyze

SpecTimbre == InitTimbre /\ [][NextTimbre]_vars

(***************************************************************************)
(* sf_annotator.annotate_soundfont                                         *)
(***************************************************************************)

\* AnalysisMode
Modes == { "basic", "full", "interactive" }

\* quality_threshold: << >> is None, << q >> an override of q tenths.
Overrides == { << >>, << 5 >>, << 10 >>, << 20 >> }

Qualities == { "high", "medium", "low" }

\* File sizes, in hundredths of a megabyte, at and just above each cutoff.
FileSizes ==
    { 500, 501, 1000, 1001, 1500, 1501, 2000, 2001, 3000, 3001, 6000, 6001 }

\* MappedNotes(min_note, max_note, missing_notes).to_dict()
MappedNotes(min_note, max_note, missing) ==
    [ min_note |-> min_note, max_note |-> max_note, missing_notes |-> missing ]

\* What analyze_note_mapping finds in the SF2 file: nothing (the defaults of
\* MappedNotes) or the key ranges of its zones.
StaticMappings ==
    { MappedNotes("C0", "C8", << >>),
      MappedNotes("C1", "C7", << "C#1", "D1", "D#1", "E1", "F1" >>) }

\* What test_note_range returns for the soundfont: (min_note, max_note,
\* missing_notes).
ProbeSummaries == { << "C4", "C4", << >> >>, << "C2", "C6", << "D#3" >> >> }

\* The metadata extract_sf2_metadata returns: no key "quality".
Extracted ==
    [ size_mb : FileSizes, sample_rate : { 22050, 44100 }, bit_depth : { 16, 24 },
      mapped_notes : StaticMappings ]

\* Variant: the cutoffs are 30 MB and 10 MB whatever the override.
QualityOverride_Unscaled(size_mb, q) ==
    IF size_mb > 3000 THEN "high" ELSE IF size_mb > 1000 THEN "medium" ELSE "low"

\* size_mb > quality_threshold * 30 / * 10, with size_mb in hundredths of a
\* megabyte and q in tenths
QualityOverride(size_mb, q) ==
    IF size_mb > q * 300 THEN "high" ELSE IF size_mb > q * 100 THEN "medium" ELSE "low"

\* Inside annotate_soundfont the name test_note_range is the bool parameter,
\* which hides the function imported from soundfont_utils: calling it raises
\* TypeError.  Callee is the object the name resolves to at the call.
Callee(flag) == flag

\* callable(value): a bool is not
IsCallable(value) == value \notin BOOLEAN

\* The block `if test_note_range:` of annotate_soundfont: the summary is
\* stored in auto_metadata if the call returns; an exception is swallowed.
RangeTested(metadata, flag, summary) ==
    IF flag /\ IsCallable(Callee(flag))
    THEN [ metadata EXCEPT !.mapped_notes =
               MappedNotes(summary[1], summary[2], summary[3]) ]
    ELSE metadata

\* dict with one more key
With(dict, key, value) ==
    [ k \in DOMAIN dict \cup { key } |-> IF k = key THEN value ELSE dict[k] ]

\* The block `if mode == FULL or mode == INTERACTIVE or insert_data:` as far
\* as the quality goes.
Analysed(metadata, mode, insert_data, q) ==
    IF mode \in { "full", "interactive" } \/ insert_data
    THEN With(metadata, "quality",
              IF q # << >> THEN QualityOverride(DictGet(metadata, "size_mb", 0), q[1])
              ELSE suggest_quality(metadata))
    ELSE metadata

InitAnnotate ==
    /\ module_globals = {}
    /\ sf_exists \in BOOLEAN
    /\ fluidsynth_ok = TRUE
    /\ soundfont = 0..127
    /\ window = << 0, 127, {} >>
    /\ ProbeIdle
    /\ call = NoCall
    /\ timbre = NoTimbre
    /\ annotation = NoAnnotation
    /\ render = NoRender
    /\ pair = NoPair
    /\ catalog = NoCatalog

\* annotate_soundfont up to the record: extract_sf2_metadata (which raises
\* for a missing file, so that None is returned), the note range test and
\* the analysis block.  Tags, genres and timbre are not part of this state.
Annotate ==
    /\ annotation.pc = "idle"
    /\ \E mode \in Modes, insert_data \in BOOLEAN, q \in Overrides, flag \in BOOLEAN,
          summary \in ProbeSummaries, extracted \in Extracted :
        annotation' =
            IF ~sf_exists
            THEN [ annotation EXCEPT !.pc = "done", !.mode = mode,
                       !.insert_data = insert_data, !.quality_threshold = q,
                       !.test_note_range = flag, !.summary = summary,
                       !.result = [ kind |-> "returned", value |-> "None" ] ]
            ELSE [ annotation EXCEPT !.pc = "record", !.mode = mode,
                       !.insert_data = insert_data, !.quality_threshold = q,
                       !.test_note_range = flag, !.summary = summary,
                       !.auto_metadata =
                           Analysed(RangeTested(extracted, flag, summary),
                                    mode, insert_data, q) ]
    /\ UNCHANGED << probe_vars, call, timbre, render, pair, catalog >>

\* SoundfontMetadata(id=manager.next_id, quality=..., mapped_notes=...)
Record(id, metadata) ==
    [ id |-> id, quality |-> DictGet(metadata, "quality", "medium"),
      mapped_notes |->
          LET mapped == DictGet(metadata, "mapped_notes", << >>)
          IN  MappedNotes(DictGet(mapped, "min_note", "C0"),
                          DictGet(mapped, "max_note", "C8"),
                          DictGet(mapped, "missing_notes", << >>)) ]

\* annotate_soundfont from the record on: in interactive mode (or with
\* insert_data) the user may edit the metadata, and what get_manual_metadata
\* returns then overrides the automatic values; the record is appended to
\* the manager and returned.
StoreRecord ==
    /\ annotation.pc = "record"
    /\ \E edit \in BOOLEAN, manual \in Qualities :
        LET asked == annotation.mode = "interactive" \/ annotation.insert_data
            edited == asked /\ edit
            merged == IF edited THEN With(annotation.auto_metadata, "quality", manual)
                      ELSE annotation.auto_metadata
            sf == Record(annotation.manager.next_id, merged)
        IN  annotation' =
                [ annotation EXCEPT !.pc = "done", !.edited = edited,
                      !.manager = [ soundfonts |-> Append(@.soundfonts, sf),
                                    next_id |-> @.next_id + 1 ],
                      !.result = [ kind |-> "returned", value |-> sf ] ]
    /\ UNCHANGED << probe_vars, call, timbre, render, pair, catalog >>

NextAnnotate ==
    \/ Annotate
    \/ StoreRecord

SpecAnnotate == InitAnnotate /\ [][NextAnnotate]_vars

(***************************************************************************)
(* soundfont_manager.SoundfontManager and the callers that add records.    *)
(***************************************************************************)

\* The catalog holds at most MaxRecords records, a CSV file at most MaxRows
\* rows, and no id above MaxId is handed out.
MaxRecords == 2

MaxRows == 2

MaxId == 3

\* The instrument words generate_tag_suggestions looks for in a name, each
\* with its letters.
instruments ==
    << [ word |-> "piano",   letters |-> << "p", "i", "a", "n", "o" >> ],
       [ word |-> "guitar",  letters |-> << "g", "u", "i", "t", "a", "r" >> ],
       [ word |-> "bass",    letters |-> << "b", "a", "s", "s" >> ],
       [ word |-> "drum",    letters |-> << "d", "r", "u", "m" >> ],
       [ word |-> "synth",   letters |-> << "s", "y", "n", "t", "h" >> ],
       [ word |-> "strings", letters |-> << "s", "t", "r", "i", "n", "g", "s" >> ],
       [ word |-> "brass",   letters |-> << "b", "r", "a", "s", "s" >> ],
       [ word |-> "organ",   letters |-> << "o", "r", "g", "a", "n" >> ] >>

\* `instrument in name` on strings: name and word as sequences of letters.
Contains(name, letters) ==
    \E k \in 0..(Len(name) - Len(letters)) :
        SubSeq(name, k + 1, k + Len(letters)) = letters

\* The .sf2 files of the directory: the lowercase name of each, as letters,
\* what extract_sf2_metadata reads from it and what analyze_timbre finds.
Directory ==
    ("grand_piano.sf2" :>
        [ name |-> << "g", "r", "a", "n", "d", " ", "p", "i", "a", "n", "o" >>,
          size_mb |-> 6001, sample_rate |-> 44100, bit_depth |-> 24,
          mapped_notes |-> MappedNotes("C0", "C8", << >>),
          timbre |-> Classify([ spectral_centroid |-> 1500, spectral_bandwidth |-> 0,
                                spectral_rolloff |-> 4000, zero_crossing_rate |-> 150,
                                harmonic_ratio |-> 0,
                                mfcc_features |-> [ k \in 1..13 |-> 0 ] ]) ])
    @@ ("pad.sf2" :>
        [ name |-> << "p", "a", "d" >>,
          size_mb |-> 500, sample_rate |-> 22050, bit_depth |-> 16,
          mapped_notes |-> MappedNotes("C1", "C7", << "C#1", "D1", "D#1", "E1", "F1" >>),
          timbre |-> default_timbre ])

\* Paths a caller may name: the files of the directory and one that is not
\* there.
Paths == DOMAIN Directory \cup { "gone.sf2" }

\* extract_sf2_metadata: no key tags, genre or quality.
extract_sf2_metadata(path) ==
    [ name |-> Directory[path].name, instrument_type |-> "unknown",
      mapped_notes |-> Directory[path].mapped_notes, polyphony |-> 32,
      sample_rate |-> Directory[path].sample_rate,
      bit_depth |-> Directory[path].bit_depth, size_mb |-> Directory[path].size_mb ]

\* analyze_timbre
analyze_timbre(path) == Directory[path].timbre

\* generate_tag_suggestions: the sorted list of a set of tags, as that set.
generate_tag_suggestions(metadata) ==
    (IF "instrument_type" \in DOMAIN metadata /\ metadata.instrument_type # ""
     THEN { metadata.instrument_type } ELSE {})
    \cup (IF "timbre" \in DOMAIN metadata
          THEN { metadata.timbre[key] :
                   key \in { "brightness", "richness", "attack", "harmonic_quality" }
                           \cap DOMAIN metadata.timbre }
          ELSE {})
    \cup (IF "quality" \in DOMAIN metadata THEN { metadata.quality } ELSE {})
    \cup (IF "genre" \in DOMAIN metadata THEN metadata.genre ELSE {})
    \cup (IF "name" \in DOMAIN metadata
          THEN { instruments[k].word :
                   k \in { j \in DOMAIN instruments :
                             Contains(metadata.name, instruments[j].letters) } }
          ELSE {})

\* suggest_genres: the sorted list without duplicates, as a set.
suggest_genres(timbre_info) ==
    LET brightness == DictGet(timbre_info, "brightness", "")
        richness == DictGet(timbre_info, "richness", "")
        attack == DictGet(timbre_info, "attack", "")
        harmonic_quality == DictGet(timbre_info, "harmonic_quality", "")
        genres ==
            (IF brightness = "bright" /\ attack = "hard"
             THEN { "rock", "metal", "electronic" } ELSE {})
            \cup (IF brightness = "dark" /\ harmonic_quality = "harmonic"
                  THEN { "classical", "jazz", "ambient" } ELSE {})
            \cup (IF richness = "rich" /\ harmonic_quality = "harmonic"
                  THEN { "classical", "orchestral", "film" } ELSE {})
            \cup (IF attack = "soft" /\ harmonic_quality = "harmonic"
                  THEN { "ambient", "new age", "chill" } ELSE {})
            \cup (IF brightness = "medium" /\ attack = "medium"
                  THEN { "pop", "folk", "world" } ELSE {})
            \cup (IF harmonic_quality = "percussive"
                  THEN { "percussion", "hip hop", "electronic" } ELSE {})
            \cup (IF brightness = "dark" /\ attack = "soft"
                  THEN { "ambient", "chill" } ELSE {})
            \cup (IF brightness = "bright" /\ richness = "simple"
                  THEN { "electronic", "techno" } ELSE {})
    IN  IF genres = {} THEN { "versatile" } ELSE genres

\* The three suggestions in the order add_soundfont and annotate_soundfont
\* make them: tags from the metadata as it is then, genres, quality.
Suggested(metadata) ==
    LET tags == With(metadata, "tags",
                     DictGet(metadata, "tags", {}) \cup generate_tag_suggestions(metadata))
        genre == With(tags, "genre", suggest_genres(metadata.timbre))
    IN  With(genre, "quality", suggest_quality(genre))

\* The block `if auto_analyze:` of add_soundfont; without it metadata = {}.
AutoAnalysed(sf2_path, auto_analyze) ==
    IF auto_analyze
    THEN Suggested(With(extract_sf2_metadata(sf2_path), "timbre", analyze_timbre(sf2_path)))
    ELSE << >>

\* annotate_soundfont up to the record, for a user who edits nothing: the
\* analysis block runs in full and interactive mode.
AutoMetadata(soundfont_path, mode) ==
    IF mode \in { "full", "interactive" }
    THEN Suggested(With(extract_sf2_metadata(soundfont_path), "timbre",
                        analyze_timbre(soundfont_path)))
    ELSE extract_sf2_metadata(soundfont_path)

\* SoundfontMetadata(id=..., path=..., tags=..., quality=..., genre=...).
\* made_by and analysed are bookkeeping: the operation that created the
\* record and whether its analysis block ran.
SoundfontMetadata(id, path, metadata, made_by, analysed) ==
    [ id |-> id, path |-> path, tags |-> DictGet(metadata, "tags", {}),
      quality |-> DictGet(metadata, "quality", "medium"),
      genre |-> DictGet(metadata, "genre", {}),
      made_by |-> made_by, analysed |-> analysed ]

\* _build_indices, the index by id: each id to the position of the last
\* record that carries it.
build_indices(soundfonts) ==
    [ id \in { soundfonts[k].id : k \in DOMAIN soundfonts } |->
        Max({ k \in DOMAIN soundfonts : soundfonts[k].id = id }) ]

\* A manager: the list, next_id, the index by id as last built, and (as
\* bookkeeping) the ids removed since it was loaded.
Manager(soundfonts, next_id, indices, removed) ==
    [ soundfonts |-> soundfonts, next_id |-> next_id, indices |-> indices,
      removed |-> removed ]

\* load_soundfonts: the records of the file, next_id above each of their ids.
load_soundfonts(items) ==
    Manager(items,
            IF items = << >> THEN 1
            ELSE Max({ 1 } \cup { items[k].id + 1 : k \in DOMAIN items }),
            build_indices(items), {})

\* `for sf in self.soundfonts: if sf.path == rel_path`
Known(m, rel_path) == \E k \in DOMAIN m.soundfonts : m.soundfonts[k].path = rel_path

\* add_soundfont for a file that exists
add_soundfont(m, sf2_path, auto_analyze) ==
    IF Known(m, sf2_path) THEN m
    ELSE LET sf == SoundfontMetadata(m.next_id, sf2_path,
                                     AutoAnalysed(sf2_path, auto_analyze),
                                     "add_soundfont", auto_analyze)
             soundfonts == Append(m.soundfonts, sf)
         IN  Manager(soundfonts, m.next_id + 1, build_indices(soundfonts), m.removed)

\* annotate_soundfont for a file that exists: the record is appended
\* whatever the list holds.
annotate_soundfont(m, soundfont_path, mode) ==
    LET sf == SoundfontMetadata(m.next_id, soundfont_path,
                                AutoMetadata(soundfont_path, mode),
                                "annotate_soundfont", mode \in { "full", "interactive" })
        soundfonts == Append(m.soundfonts, sf)
    IN  Manager(soundfonts, m.next_id + 1, build_indices(soundfonts), m.removed)

\* remove_soundfont
remove_soundfont(m, sf_id) ==
    IF sf_id \notin DOMAIN m.indices THEN m
    ELSE LET soundfonts == SelectSeq(m.soundfonts, LAMBDA s : s.id # sf_id)
         IN  Manager(soundfonts, m.next_id, build_indices(soundfonts),
                     m.removed \cup { sf_id })

\* scan_directory: add_soundfont(entry.path, auto_analyze=True, save=False)
\* for each file, in the order os.scandir yields them.
RECURSIVE scan_dir(_, _)
scan_dir(m, entries) ==
    IF entries = << >> THEN m
    ELSE scan_dir(add_soundfont(m, Head(entries), TRUE), Tail(entries))

\* The loop of main() in the non-interactive modes: a file whose path is in
\* the catalog is skipped unless --force is given.
RECURSIVE annotate_all(_, _, _, _)
annotate_all(m, entries, mode, force) ==
    IF entries = << >> THEN m
    ELSE annotate_all(
             IF Known(m, Head(entries)) /\ ~force THEN m
             ELSE annotate_soundfont(m, Head(entries), mode),
             Tail(entries), mode, force)

\* The rows of a CSV file: the text of the column id (which may not be a
\* number), and the path.  An id of 0 asks for the next free id.
Rows == [ id : 0..MaxId, path : DOMAIN Directory, numeric : BOOLEAN ]

CsvFiles == UNION { [ 1..n -> Rows ] : n \in 1..MaxRows }

\* The loop of import_csv from row k on.  The index is the one built before
\* the call: a record appended by an earlier row is not in it.  A row whose
\* id is not a number raises, which ends the import where it stands.
RECURSIVE import_rows(_, _, _, _, _)
import_rows(m, rows, k, update_existing, count) ==
    IF k > Len(rows) THEN [ m |-> m, count |-> count, raised |-> FALSE ]
    ELSE IF ~rows[k].numeric THEN [ m |-> m, count |-> count, raised |-> TRUE ]
    ELSE
        LET sf_id == rows[k].id
            existing == sf_id # 0 /\ sf_id \in DOMAIN m.indices
            sf == SoundfontMetadata(IF sf_id # 0 THEN sf_id ELSE m.next_id,
                                    rows[k].path, << >>, "import_csv", FALSE)
        IN  IF existing /\ ~update_existing
            THEN import_rows(m, rows, k + 1, update_existing, count)
            ELSE IF existing
            THEN import_rows([ m EXCEPT !.soundfonts[m.indices[sf_id]] = sf ],
                             rows, k + 1, update_existing, count + 1)
            ELSE import_rows([ m EXCEPT !.soundfonts = Append(@, sf),
                                        !.next_id = Max({ @, sf.id + 1 }) ],
                             rows, k + 1, update_existing, count + 1)

\* import_csv: the index is rebuilt once, after the last row, if a row was
\* taken and none raised.
import_csv(m, rows, update_existing) ==
    LET done == import_rows(m, rows, 1, update_existing, 0)
    IN  IF done.count > 0 /\ ~done.raised
        THEN [ done.m EXCEPT !.indices = build_indices(done.m.soundfonts) ]
        ELSE done.m

\* Orders in which a directory listing yields the files.
Listings ==
    { order \in [ 1..Cardinality(DOMAIN Directory) -> DOMAIN Directory ] :
        \A a, b \in DOMAIN order : a # b => order[a] # order[b] }

\* Catalogs a database file can hold: records with pairwise distinct ids.
LoadedCatalogs ==
    { << >>,
      << SoundfontMetadata(1, "pad.sf2", << >>, "load_soundfonts", FALSE) >>,
      << SoundfontMetadata(2, "grand_piano.sf2", << >>, "load_soundfonts", FALSE) >> }

\* Whether the manager stays within the bounds of the model.
Bounded(m) == Len(m.soundfonts) <= MaxRecords /\ m.next_id <= MaxId + 1

Catalog(m) ==
    [ pc |-> "ready", soundfonts |-> m.soundfonts, next_id |-> m.next_id,
      indices |-> m.indices, removed |-> m.removed ]

InitCatalog ==
    /\ module_globals = {}
    /\ sf_exists = TRUE
    /\ fluidsynth_ok = TRUE
    /\ soundfont = 0..127
    /\ window = << 0, 127, {} >>
    /\ ProbeIdle
    /\ call = NoCall
    /\ timbre = NoTimbre
    /\ annotation = NoAnnotation
    /\ render = NoRender
    /\ pair = NoPair
    /\ \E items \in LoadedCatalogs : catalog = Catalog(load_soundfonts(items))

\* manager.add_soundfont(sf2_path, auto_analyze): FileNotFoundError for a
\* file that is not there.
AddSoundfont ==
    \E sf2_path \in Paths, auto_analyze \in BOOLEAN :
        /\ sf2_path \in DOMAIN Directory
        /\ Bounded(add_soundfont(catalog, sf2_path, auto_analyze))
        /\ catalog' = Catalog(add_soundfont(catalog, sf2_path, auto_analyze))
        /\ UNCHANGED << probe_vars, call, timbre, annotation, render, pair >>

\* manager.scan_directory(directory)
ScanDirectory ==
    \E entries \in Listings :
        /\ Bounded(scan_dir(catalog, entries))
        /\ catalog' = Catalog(scan_dir(catalog, entries))
        /\ UNCHANGED << probe_vars, call, timbre, annotation, render, pair >>

\* manager.remove_soundfont(sf_id)
RemoveSoundfont ==
    \E sf_id \in 1..MaxId :
        /\ catalog' = Catalog(remove_soundfont(catalog, sf_id))
        /\ UNCHANGED << probe_vars, call, timbre, annotation, render, pair >>

\* annotate_soundfont(soundfont_path, manager, mode, ...), as the selection
\* loop of the interactive mode calls it for the file the user picks:
\* extract_sf2_metadata raises for a file that is not there and None is
\* returned.
AnnotateSoundfont ==
    \E soundfont_path \in Paths, mode \in Modes :
        /\ soundfont_path \in DOMAIN Directory
        /\ Bounded(annotate_soundfont(catalog, soundfont_path, mode))
        /\ catalog' = Catalog(annotate_soundfont(catalog, soundfont_path, mode))
        /\ UNCHANGED << probe_vars, call, timbre, annotation, render, pair >>

\* sf_annotator --mode basic|full [--force] on the directory
AnnotateBatch ==
    \E entries \in Listings, mode \in { "basic", "full" }, force \in BOOLEAN :
        /\ Bounded(annotate_all(catalog, entries, mode, force))
        /\ catalog' = Catalog(annotate_all(catalog, entries, mode, force))
        /\ UNCHANGED << probe_vars, call, timbre, annotation, render, pair >>

\* manager.import_csv(input_file, update_existing)
ImportCsv ==
    \E rows \in CsvFiles, update_existing \in BOOLEAN :
        /\ Bounded(import_csv(catalog, rows, update_existing))
        /\ catalog' = Catalog(import_csv(catalog, rows, update_existing))
        /\ UNCHANGED << probe_vars, call, timbre, annotation, render, pair >>

NextCatalog ==
    \/ AddSoundfont
    \/ ScanDirectory
    \/ RemoveSoundfont
    \/ AnnotateSoundfont
    \/ AnnotateBatch
    \/ ImportCsv

SpecCatalog == InitCatalog /\ [][NextCatalog]_vars

(***************************************************************************)
(* sound_test.test_soundfont, subprocess by subprocess.                    *)
(***************************************************************************)

\* possible_drivers on Linux
possible_drivers == << "alsa", "pulseaudio", "jack", "oss" >>

\* subprocess.run(['fluidsynth', '--version'], stdout=PIPE, stderr=PIPE)
VersionCheck(hangs) == Process("version", "", 0, hangs)

\* subprocess.run(['fluidsynth', '-a', driver, ...], ..., timeout=1)
DriverCheck(driver, hangs) == Process("check", driver, 1, hangs)

\* subprocess.run(['fluidsynth', '-ni', ..., '-F', temp_wav, '-a', driver,
\* ...], ..., timeout=5)
RenderRun(driver, hangs) == Process("render", driver, 5, hangs)

\* return success, path: before the try block, with no finally clause
Leave(r, success, path) ==
    [ r EXCEPT !.pc = "done", !.running = NoProcess,
               !.result = [ kind |-> "returned", success |-> success, path |-> path ] ]

\* `if wav_output and temp_wav in temp_files: temp_files.remove(temp_wav)`
Kept(r) ==
    IF r.wav_output /\ r.temp_wav \in r.temp_files
    THEN r.temp_files \ { r.temp_wav } ELSE r.temp_files

\* Leaving the try block: `return True, temp_wav` after a render that
\* succeeded, `return False, None` otherwise, each through the finally
\* clause, which removes every file of temp_files.
Finally(r, success) ==
    LET temp_files == IF success THEN Kept(r) ELSE r.temp_files
    IN  [ Leave(r, success, IF success THEN r.temp_wav ELSE "None")
            EXCEPT !.temp_files = temp_files, !.files = @ \ temp_files ]

\* The render loop from the next driver on: the render with it starts, or,
\* with no driver left, success is False.
TryNext(r, drivers, hangs) ==
    IF drivers = << >> THEN Finally(r, FALSE)
    ELSE [ r EXCEPT !.untried = Tail(drivers),
                    !.running = RenderRun(Head(drivers), hangs) ]

\* test_audio_drivers from the next driver on: its check starts, or, with
\* none left, working_drivers ('default' if none works) is returned and the
\* render loop begins.
CheckNext(r, drivers, working, hangs) ==
    IF drivers # << >>
    THEN [ r EXCEPT !.unchecked = Tail(drivers), !.working_drivers = working,
                    !.running = DriverCheck(Head(drivers), hangs) ]
    ELSE LET working_drivers == IF working = << >> THEN << "default" >> ELSE working
         IN  TryNext([ r EXCEPT !.pc = "render", !.unchecked = << >>,
                                !.working_drivers = working_drivers ],
                     working_drivers, hangs)

InitRender ==
    /\ module_globals = {}
    /\ sf_exists \in BOOLEAN
    /\ fluidsynth_ok = TRUE
    /\ soundfont = 0..127
    /\ window = << 0, 127, {} >>
    /\ ProbeIdle
    /\ call = NoCall
    /\ timbre = NoTimbre
    /\ annotation = NoAnnotation
    /\ render = NoRender
    /\ pair = NoPair
    /\ catalog = NoCatalog

\* test_soundfont(soundfont_path, False, wav_output) up to the version
\* check: (False, None) for a soundfont that is not there.
TestSoundfont ==
    /\ render.pc = "idle"
    /\ \E wav_output \in BOOLEAN, hangs \in BOOLEAN :
        render' =
            IF ~sf_exists THEN Leave([ render EXCEPT !.wav_output = wav_output ], FALSE, "None")
            ELSE [ render EXCEPT !.pc = "version", !.wav_output = wav_output,
                                 !.running = VersionCheck(hangs) ]
    /\ UNCHANGED << probe_vars, call, timbre, annotation, pair, catalog >>

\* The version check exits (or could not be started, which raises): up to
\* the first driver check.  mkstemp creates the MIDI file, and the WAV file
\* too unless the caller gave wav_output.
VersionExit ==
    /\ render.pc = "version"
    /\ ~render.running.hangs
    /\ \E outcome \in { "zero", "nonzero", "raised" }, midi_written \in BOOLEAN,
          hangs \in BOOLEAN :
        render' =
            IF outcome # "zero" THEN Leave(render, FALSE, "None")
            ELSE LET midi == [ render EXCEPT !.temp_files = { "mkstemp.mid" },
                                             !.files = @ \cup { "mkstemp.mid" } ]
                     wav == IF render.wav_output
                            THEN [ midi EXCEPT !.temp_wav = "wav_output" ]
                            ELSE [ midi EXCEPT !.temp_wav = "mkstemp.wav",
                                               !.temp_files = @ \cup { "mkstemp.wav" },
                                               !.files = @ \cup { "mkstemp.wav" } ]
                 IN  IF ~midi_written THEN Finally(midi, FALSE)
                     ELSE CheckNext([ wav EXCEPT !.pc = "drivers" ],
                                    possible_drivers, << >>, hangs)
    /\ UNCHANGED << probe_vars, call, timbre, annotation, pair, catalog >>

\* A driver check exits: the driver works or not.
DriverExit ==
    /\ render.pc = "drivers"
    /\ ~render.running.hangs
    /\ \E works \in BOOLEAN, hangs \in BOOLEAN :
        render' = CheckNext(render, render.unchecked,
                            IF works THEN Append(render.working_drivers,
                                                 render.running.driver)
                            ELSE render.working_drivers,
                            hangs)
    /\ UNCHANGED << probe_vars, call, timbre, annotation, pair, catalog >>

\* A driver check is killed at its timeout: `except: continue`.
DriverTimeout ==
    /\ render.pc = "drivers"
    /\ render.running.timeout > 0
    /\ \E hangs \in BOOLEAN :
        render' = CheckNext(render, render.unchecked, render.working_drivers, hangs)
    /\ UNCHANGED << probe_vars, call, timbre, annotation, pair, catalog >>

\* A render exits: with return code 0 and a WAV file with content the loop
\* breaks and (True, temp_wav) is returned; otherwise the next driver.
RenderExit ==
    /\ render.pc = "render"
    /\ ~render.running.hangs
    /\ \E outcome \in { "wav", "nonzero", "nofile" }, hangs \in BOOLEAN :
        render' =
            IF outcome = "wav"
            THEN Finally([ render EXCEPT !.files = @ \cup { render.temp_wav } ], TRUE)
            ELSE TryNext(render, render.untried, hangs)
    /\ UNCHANGED << probe_vars, call, timbre, annotation, pair, catalog >>

\* A render is killed at its timeout: `except subprocess.TimeoutExpired`,
\* and the loop goes on with the next driver.
RenderTimeout ==
    /\ render.pc = "render"
    /\ render.running.timeout > 0
    /\ \E hangs \in BOOLEAN :
        render' = TryNext(render, render.untried, hangs)
    /\ UNCHANGED << probe_vars, call, timbre, annotation, pair, catalog >>

NextRender ==
    \/ TestSoundfont
    \/ VersionExit
    \/ DriverExit
    \/ DriverTimeout
    \/ RenderExit
    \/ RenderTimeout

SpecRender == InitRender /\ [][NextRender]_vars

\* Python runs the call to its end, a child that does not hang exits, and a
\* timeout that was given expires: every step that can be taken is taken.
FairSpecRender == SpecRender /\ WF_vars(NextRender)

(***************************************************************************)
(* Two invocations at once on one soundfont: test_note_range and           *)
(* analyze_timbre, file operation by file operation.                       *)
(***************************************************************************)

\* The probes of this part test the first PairNotes notes of test_notes.
PairNotes == 2

Procs == { 1, 2 }

\* What the environment can do to one render: nothing, or one of these.
PairFaults == { "none", "timeout", "nofile", "silent" }

\* Variant: tempfile.mkdtemp() hands every caller the same directory.
mkdtemp_Reused(p) == "/tmp/tmp_a"

\* tempfile.mkdtemp(): a directory made for this caller alone
mkdtemp(p) == IF p = 1 THEN "/tmp/tmp_a" ELSE "/tmp/tmp_b"

\* os.path.join(temp_dir, f"note_{note}.mid"), ...f"note_{note}.wav", and
\* os.path.join(temp_dir, "timbre_analysis.wav") (stem "timbre_analysis",
\* note 0)
Path(dir, stem, note, ext) == [ dir |-> dir, stem |-> stem, note |-> note, ext |-> ext ]

\* The file at a path, NoWav if there is none.
FileAt(fs, path) == IF path \in DOMAIN fs THEN fs[path].file ELSE NoWav

\* The file system after process p wrote a file: the file and its writer.
Written(fs, path, p, file) ==
    [ q \in DOMAIN fs \cup { path } |->
        IF q = path THEN [ by |-> p, file |-> file ] ELSE fs[q] ]

\* shutil.rmtree(dir)
Removed(fs, dir) == [ q \in { x \in DOMAIN fs : x.dir # dir } |-> fs[q] ]

\* Bookkeeping: process p read, overwrote or deleted a file that process
\* `by` wrote.
Foreign(p, op, writers) == { [ who |-> p, op |-> op, whose |-> by ] : by \in writers \ { p } }

Writer(fs, path) == IF path \in DOMAIN fs THEN { fs[path].by } ELSE {}

\* One invocation: test_note_range ("probe") or analyze_timbre
\* ("classify"), its output_dir argument ("None" if not given), where it
\* stands, its directory, the index of the note under test, what the last
\* render returned, what it found so far, and (bookkeeping) what it would
\* have found from its own renders alone.
Invocation(kind, output_dir) ==
    [ kind |-> kind, output_dir |-> output_dir, at |-> "start", temp_dir |-> "",
      k |-> 1, success |-> FALSE, found |-> << >>, alone |-> << >> ]


InitPair ==
    /\ module_globals = HelperNames
    /\ sf_exists = TRUE
    /\ fluidsynth_ok = TRUE
    /\ soundfont = 0..127
    /\ window = << 0, 127, {} >>
    /\ ProbeIdle
    /\ call = NoCall
    /\ timbre = NoTimbre
    /\ annotation = NoAnnotation
    /\ render = NoRender
    /\ catalog = NoCatalog
    /\ \E kinds \in [ Procs -> { "probe", "classify" } ],
          dirs \in [ Procs -> { "None", "/home/out" } ] :
        /\ \A p \in Procs : kinds[p] = "classify" => dirs[p] = "None"
        /\ pair = [ pc |-> "run", fs |-> [ q \in {} |-> 0 ], foreign |-> {},
                    proc |-> [ p \in Procs |-> Invocation(kinds[p], dirs[p]) ] ]

\* The directory of the invocation: output_dir (os.makedirs(exist_ok=True))
\* if the caller gave one, a fresh mkdtemp() otherwise.
PairEnter ==
    \E p \in Procs :
        /\ pair.pc = "run"
        /\ pair.proc[p].at = "start"
        /\ pair' = [ pair EXCEPT
               !.proc[p].temp_dir =
                   IF pair.proc[p].output_dir # "None" THEN pair.proc[p].output_dir
                   ELSE mkdtemp(p),
               !.proc[p].at = IF pair.proc[p].kind = "probe" THEN "midi" ELSE "render" ]
        /\ UNCHANGED << probe_vars, call, timbre, annotation, render, catalog >>

\* create_single_note_midi(midi_path, note)
PairWriteMidi ==
    \E p \in Procs :
        /\ pair.pc = "run"
        /\ pair.proc[p].at = "midi"
        /\ LET me == pair.proc[p]
               note == test_notes[me.k]
               midi_path == Path(me.temp_dir, "note", note, "mid")
           IN  pair' = [ pair EXCEPT
                   !.fs = Written(@, midi_path, p, create_single_note_midi(note)),
                   !.foreign = @ \cup Foreign(p, "overwrite", Writer(pair.fs, midi_path)),
                   !.proc[p].at = "render" ]
        /\ UNCHANGED << probe_vars, call, timbre, annotation, render, catalog >>

\* run_fluidsynth(soundfont_path, midi_path, wav_path), or test_soundfont(
\* sf2_path, False, wav_path) in analyze_timbre: the synthesizer reads the
\* MIDI file test_soundfont made with mkstemp, which no other call can
\* name, and writes wav_path.
PairRender ==
    \E p \in Procs, fault \in PairFaults :
        /\ pair.pc = "run"
        /\ pair.proc[p].at = "render"
        /\ LET me == pair.proc[p]
               probe == me.kind = "probe"
               note == IF probe THEN test_notes[me.k] ELSE 0
               wav_path == Path(me.temp_dir, IF probe THEN "note" ELSE "timbre_analysis",
                                note, "wav")
               old == FileAt(pair.fs, wav_path)
               out == test_soundfont(old, fault)
               solo == test_soundfont(NoWav, fault)
           IN  pair' = [ pair EXCEPT
                   !.fs = IF out.wav # old THEN Written(@, wav_path, p, out.wav) ELSE @,
                   !.foreign = @ \cup (IF out.wav # old
                                       THEN Foreign(p, "overwrite", Writer(pair.fs, wav_path))
                                       ELSE {}),
                   !.proc[p].success = out.success,
                   !.proc[p].alone =
                       Put(@, note, IF probe THEN Playable(solo.success, solo.wav)
                                    ELSE solo.success /\ Exists(solo.wav)
                                         /\ solo.wav.decodable /\ ~Unusable(solo.wav.samples)),
                   !.proc[p].at = IF probe THEN "classify"
                                  ELSE IF out.success THEN "load" ELSE "cleanup" ]
        /\ UNCHANGED << probe_vars, call, timbre, annotation, render, catalog >>

\* test_note_range: `success and os.path.exists(wav_path) and
\* os.path.getsize(wav_path) > 100` and `not is_silent_wav(wav_path)`, on
\* the file that is at wav_path now; then the next note, or the end.
PairClassify ==
    \E p \in Procs :
        /\ pair.pc = "run"
        /\ pair.proc[p].at = "classify"
        /\ LET me == pair.proc[p]
               note == test_notes[me.k]
               wav_path == Path(me.temp_dir, "note", note, "wav")
           IN  pair' = [ pair EXCEPT
                   !.foreign = @ \cup Foreign(p, "read", Writer(pair.fs, wav_path)),
                   !.proc[p].found = Put(@, note, Playable(me.success,
                                                           FileAt(pair.fs, wav_path))),
                   !.proc[p].k = @ + 1,
                   !.proc[p].at = IF me.k < PairNotes THEN "midi" ELSE "done" ]
        /\ UNCHANGED << probe_vars, call, timbre, annotation, render, catalog >>

\* analyze_timbre: librosa.load(actual_wav_path) on the file that is there
\* now; a file that is gone or does not decode raises, a waveform that is
\* empty or all zero is set aside, and default_timbre is returned.
PairLoad ==
    \E p \in Procs :
        /\ pair.pc = "run"
        /\ pair.proc[p].at = "load"
        /\ LET me == pair.proc[p]
               wav_path == Path(me.temp_dir, "timbre_analysis", 0, "wav")
               wav == FileAt(pair.fs, wav_path)
           IN  pair' = [ pair EXCEPT
                   !.foreign = @ \cup Foreign(p, "read", Writer(pair.fs, wav_path)),
                   !.proc[p].found =
                       Put(@, 0, Exists(wav) /\ wav.decodable /\ ~Unusable(wav.samples)),
                   !.proc[p].at = "cleanup" ]
        /\ UNCHANGED << probe_vars, call, timbre, annotation, render, catalog >>

\* analyze_timbre, the finally clause: shutil.rmtree(temp_dir).  A call
\* whose render failed returns default_timbre.
PairCleanup ==
    \E p \in Procs :
        /\ pair.pc = "run"
        /\ pair.proc[p].at = "cleanup"
        /\ LET me == pair.proc[p]
               mine == { q \in DOMAIN pair.fs : q.dir = me.temp_dir }
           IN  pair' = [ pair EXCEPT
                   !.fs = Removed(@, me.temp_dir),
                   !.foreign = @ \cup Foreign(p, "delete", { pair.fs[q].by : q \in mine }),
                   !.proc[p].found = IF 0 \in DOMAIN @ THEN @ ELSE Put(@, 0, FALSE),
                   !.proc[p].at = "done" ]
        /\ UNCHANGED << probe_vars, call, timbre, annotation, render, catalog >>

NextPair ==
    \/ PairEnter
    \/ PairWriteMidi
    \/ PairRender
    \/ PairClassify
    \/ PairLoad
    \/ PairCleanup

SpecPair == InitPair /\ [][NextPair]_vars

(***************************************************************************)
(* Properties.                                                             *)
(***************************************************************************)

Finished == pc = "done"

\* The call returned a measured range (not the fallback, not an exception).
ReturnedRange == Finished /\ result.kind = "returned" /\ \E e \in log : e.playable

\* Notes classified playable in any phase.
ClassifiedPlayable == { e.note : e \in { x \in log : x.playable } }

\* Notes classified playable in Phases 1 and 2.
EarlyPlayable == { e.note : e \in { x \in log : x.playable /\ x.phase # "gap" } }

\* Notes tested by gap sampling, and those of them found not playable.
GapTested == { e.note : e \in { x \in log : x.phase = "gap" } }

GapFailed == { e.note : e \in { x \in log : x.phase = "gap" /\ ~x.playable } }

\* The notes named in the returned missing list.
ReportedMissing == { NOTE_TO_MIDI(result.missing[k]) : k \in 1..Len(result.missing) }

Lowest == NOTE_TO_MIDI(result.min_note)

Highest == NOTE_TO_MIDI(result.max_note)

SeedNotes == { test_notes[k] : k \in 1..Len(test_notes) }

ExtensionNotes ==
    { low_extension[k] : k \in 1..Len(low_extension) }
        \cup { high_extension[k] : k \in 1..Len(high_extension) }

C2_ClassifiedNeverRaises ==
    /\ result.kind # "raised"
    /\ last.note # -1 =>
          /\ [ note |-> last.note, phase |-> last.phase, playable |-> last.playable ] \in log
          /\ last.playable <=>
                /\ last.success
                /\ last.wav # NoWav
                /\ last.wav.size > 100
                /\ last.wav.decodable
                /\ \E k \in 1..Len(last.wav.samples) :
                      last.wav.samples[k] >= 10 \/ last.wav.samples[k] <= -10

RECURSIVE Energy(_, _)
Energy(y, k) == IF k = 0 THEN 0 ELSE Energy(y, k - 1) + y[k] * y[k]

AllZero(y) == \A k \in 1..Len(y) : y[k] = 0

\* C13: for a non-empty decoded waveform is_silent_wav answers true exactly
\* when the RMS amplitude is strictly below the threshold (mean square below
\* the squared threshold); at the default threshold an all-zero waveform is
\* silent, and a waveform whose RMS equals the threshold is not silent.
C13_SilentIffRmsBelowThreshold ==
    (call.fn = "is_silent_wav" /\ call.wav.decodable /\ Len(call.wav.samples) > 0) =>
        LET y == call.wav.samples
            n == Len(y)
            t == call.threshold
        IN  /\ call.ret = (Energy(y, n) < t * t * n)
            /\ (AllZero(y) /\ t = 10) => call.ret
            /\ (Energy(y, n) = t * t * n) => ~call.ret

C13_Witness ==
    /\ call.fn = "is_silent_wav"
    /\ call.wav.decodable
    /\ call.wav.samples = << 10, -10 >>
    /\ call.threshold = 10
    /\ ~call.ret

\* C14: is_silent_wav classifies a decoded waveform of no samples as silent,
\* as it does an all-zero waveform of any positive length.
C14_EmptyWaveformSilent ==
    (call.fn = "is_silent_wav" /\ call.wav.decodable /\ call.threshold = 10
        /\ AllZero(call.wav.samples)) => call.ret

\* The number of thresholds at or below the value.
Tier(value, thresholds) ==
    Cardinality({ k \in 1..Len(thresholds) : thresholds[k] <= value })

\* C15: with three ascending thresholds and four labels map_value_to_category
\* returns the label whose index is the number of thresholds at or below the
\* value: label 0 below t0, label 1 in [t0, t1), label 2 in [t1, t2), label 3
\* from t2 on; the result is one of the four labels, a value equal to a
\* threshold takes the higher tier, and the tier never falls as the value grows.
C15_BucketsByThreshold ==
    (call.fn = "map_value_to_category") =>
        LET t == call.thresholds
            labels == call.categories
        IN  /\ Len(t) = 3 /\ Len(labels) = 4
            /\ t[1] < t[2] /\ t[2] < t[3]
            /\ Cardinality(Range(labels)) = 4
            /\ call.ret \in Range(labels)
            /\ call.value < t[1] => call.ret = labels[1]
            /\ (t[1] <= call.value /\ call.value < t[2]) => call.ret = labels[2]
            /\ (t[2] <= call.value /\ call.value < t[3]) => call.ret = labels[3]
            /\ t[3] <= call.value => call.ret = labels[4]
            /\ call.ret = labels[Tier(call.value, t) + 1]

C15_Witness ==
    /\ call.fn = "map_value_to_category"
    /\ call.value = 1500
    /\ call.ret = "bright"

\* The four sub-scores of a metadata record, as the quality rubric states them.
Rubric(metadata) ==
      (IF metadata.size_mb > 3000 THEN 2 ELSE IF metadata.size_mb > 1000 THEN 1 ELSE 0)
    + (IF metadata.sample_rate >= 44100 THEN 2
       ELSE IF metadata.sample_rate >= 22050 THEN 1 ELSE 0)
    + (IF metadata.bit_depth >= 24 THEN 2 ELSE IF metadata.bit_depth >= 16 THEN 1 ELSE 0)
    + (IF Len(metadata.mapped_notes.missing_notes) < 5 THEN 2
       ELSE IF Len(metadata.mapped_notes.missing_notes) < 20 THEN 1 ELSE 0)

\* C17: suggest_quality returns 'high' iff the four sub-scores sum to 6 or
\* more, 'medium' iff they sum to 4 or 5 and 'low' iff they sum to 3 or less;
\* (35 MB, 44100 Hz, 16 bit, 2 missing) is 'high' and (5 MB, 22050 Hz, 16 bit,
\* 25 missing) is 'low'.
C17_QualityTiers ==
    (call.fn = "suggest_quality") =>
        LET m == call.metadata
            sum == Rubric(m)
            missing == Len(m.mapped_notes.missing_notes)
        IN  /\ (call.ret = "high") <=> (sum >= 6)
            /\ (call.ret = "medium") <=> (sum \in { 4, 5 })
            /\ (call.ret = "low") <=> (sum <= 3)
            /\ (m.size_mb = 3500 /\ m.sample_rate = 44100 /\ m.bit_depth = 16
                  /\ missing = 2) => (sum = 7 /\ call.ret = "high")
            /\ (m.size_mb = 500 /\ m.sample_rate = 22050 /\ m.bit_depth = 16
                  /\ missing = 25) => (sum = 2 /\ call.ret = "low")

C17_Witness ==
    /\ call.fn = "suggest_quality"
    /\ call.metadata.size_mb = 3000
    /\ call.metadata.sample_rate = 44100
    /\ call.metadata.bit_depth = 16
    /\ Len(call.metadata.mapped_notes.missing_notes) = 5
    /\ call.ret = "medium"

\* C19: for every MIDI number n in 0..127 NOTE_TO_MIDI[MIDI_TO_NOTE[n]] = n,
\* the 128 names are distinct (0 is 'C-1', 60 is 'C4', 127 is 'G9'), and
\* note_name_to_midi_number parses MIDI_TO_NOTE[n] back to n.
C19_NoteNameRoundTrip ==
    (call.fn = "note_name_to_midi_number") =>
        /\ call.name = MIDI_TO_NOTE(call.n)
        /\ Text(call.chars) = call.name
        /\ call.back = call.n
        /\ call.ret = call.n
        /\ \A m \in MidiNumbers : m # call.n => MIDI_TO_NOTE(m) # call.name
        /\ call.n = 0 => call.name = "C-1"
        /\ call.n = 60 => call.name = "C4"
        /\ call.n = 127 => call.name = "G9"

C19_Witness ==
    /\ call.fn = "note_name_to_midi_number"
    /\ call.n = 0
    /\ call.name = "C-1"
    /\ call.ret = 0

(***************************************************************************)
(* The timbre analysis and the temporary files.                            *)
(***************************************************************************)

TimbreDone == timbre.pc = "done"

\* C11: when the soundfont file does not exist, a finished probe and a
\* finished timbre analysis have raised an error to the caller, and no render
\* was attempted.
C11_MissingFileRaises ==
    /\ (Finished /\ ~sf_exists) =>
          (result.kind = "raised" /\ ~last.invoked)
    /\ (TimbreDone /\ ~sf_exists) =>
          (timbre.result.kind = "raised" /\ ~timbre.invoked)

\* The neutral profile: the second tier of each category, zero numerics and
\* 13 zero MFCCs.
NeutralProfile ==
    [ brightness |-> "medium", richness |-> "medium", attack |-> "medium",
      harmonic_quality |-> "balanced", spectral_centroid |-> 0,
      spectral_bandwidth |-> 0, spectral_rolloff |-> 0, zero_crossing_rate |-> 0,
      mfcc_features |-> << 0, 0, 0, 0, 0, 0, 0, 0, 0, 0, 0, 0, 0 >> ]

\* C16: analyze_timbre never raises, and it returns exactly the neutral
\* profile when the render failed (no file was loaded), when the loaded file
\* does not decode, when its waveform is empty or all zero, and when the
\* analysis threw.
C16_NeutralProfileOnFailure ==
    TimbreDone =>
        /\ timbre.result.kind = "returned"
        /\ ( \/ timbre.loaded = NoWav
             \/ ~timbre.loaded.decodable
             \/ Len(timbre.loaded.samples) = 0
             \/ AllZero(timbre.loaded.samples)
             \/ timbre.threw ) => timbre.result.value = NeutralProfile

C16_Witness ==
    /\ TimbreDone
    /\ timbre.loaded.decodable
    /\ Len(timbre.loaded.samples) > 0
    /\ AllZero(timbre.loaded.samples)
    /\ ~timbre.threw
    /\ timbre.result = [ kind |-> "returned", value |-> NeutralProfile ]

\* C20: when a probe or a timbre analysis has returned or raised, the
\* temporary directory it made and every file it wrote there are gone.
C20_TemporaryFilesRemoved ==
    /\ Finished => (~temp_dir /\ midi_files = << >> /\ wav_files = << >>)
    /\ TimbreDone => (~timbre.temp_dir /\ timbre.wav = NoWav)

(***************************************************************************)
(* The annotation.                                                         *)
(***************************************************************************)

\* The record the annotation appended to the catalog.
Stored == annotation.manager.soundfonts[1]

Annotated == annotation.pc = "done" /\ annotation.manager.soundfonts # << >>

\* C12: the record of a soundfont annotated with test_note_range=True carries
\* as mapped_notes the (min_note, max_note, missing_notes) the prober returns
\* for that soundfont.
C12_RecordCarriesProbeSummary ==
    (Annotated /\ annotation.test_note_range) =>
        /\ Stored.mapped_notes.min_note = annotation.summary[1]
        /\ Stored.mapped_notes.max_note = annotation.summary[2]
        /\ Stored.mapped_notes.missing_notes = annotation.summary[3]

\* The size-only rule of an override of q tenths, sizes in hundredths of MB.
SizeOnlyTier(size_mb, q) ==
    IF 10 * size_mb > 30 * 100 * q THEN "high"
    ELSE IF 10 * size_mb > 10 * 100 * q THEN "medium"
    ELSE "low"

\* The score-based tier of the quality rubric.
RubricTier(metadata) ==
    IF Rubric(metadata) >= 6 THEN "high"
    ELSE IF Rubric(metadata) >= 4 THEN "medium"
    ELSE "low"

\* The stored quality follows the override if one was given and the rubric
\* otherwise.
QualityAsRuled ==
    IF annotation.quality_threshold # << >>
    THEN Stored.quality =
            SizeOnlyTier(annotation.auto_metadata.size_mb, annotation.quality_threshold[1])
    ELSE Stored.quality = RubricTier(annotation.auto_metadata)

\* The analysis block ran, and the user did not edit its values.
AnalysedUnedited ==
    /\ annotation.mode \in { "full", "interactive" } \/ annotation.insert_data
    /\ ~annotation.edited

Tested == { e.note : e \in log }

Records == { catalog.soundfonts[k] : k \in DOMAIN catalog.soundfonts }

\* The catalog is what add_soundfont, scan_directory and annotation runs
\* made of the loaded one: nothing was imported and nothing removed.
AddedOrAnnotatedOnly ==
    /\ catalog.pc = "ready"
    /\ catalog.removed = {}
    /\ \A sf \in Records :
           sf.made_by \in { "load_soundfonts", "add_soundfont", "annotate_soundfont" }

\* C23: after any sequence of add_soundfont, scan_directory and annotation
\* runs the catalog holds at most one record per path.
C23_OneRecordPerPath ==
    AddedOrAnnotatedOnly =>
        \A a, b \in DOMAIN catalog.soundfonts :
            a # b => catalog.soundfonts[a].path # catalog.soundfonts[b].path

\* C29: after any sequence of add_soundfont, remove_soundfont,
\* annotate_soundfont and import_csv on a catalog loaded with pairwise
\* distinct ids, the ids are pairwise distinct, next_id is above each of
\* them, and no record carries the id of a record removed earlier.
C29_IdsDistinctAndFresh ==
    catalog.pc = "ready" =>
        /\ \A a, b \in DOMAIN catalog.soundfonts :
               a # b => catalog.soundfonts[a].id # catalog.soundfonts[b].id
        /\ \A sf \in Records : sf.id < catalog.next_id
        /\ \A sf \in Records : sf.id \notin catalog.removed

\* C30: a record made by add_soundfont with auto_analyze or by
\* annotate_soundfont with its analysis block has its quality tier and each
\* of its genres among its tags.
C30_TagsIncludeQualityAndGenres ==
    \A sf \in Records :
        (sf.made_by \in { "add_soundfont", "annotate_soundfont" } /\ sf.analysed) =>
            /\ sf.quality \in sf.tags
            /\ sf.genre \subseteq sf.tags

(***************************************************************************)
(* test_soundfont: termination and the returned file.                      *)
(***************************************************************************)

\* C21: a render terminates even if a synthesizer invocation hangs: each
\* invocation is bounded by a timeout, so the call returns.
C21_RenderTerminates == <>(render.pc = "done")

\* C28: whenever test_soundfont returns (True, path), the file at path
\* exists, whether the caller gave wav_output or not.
C28_ReturnedWavExists ==
    (render.pc = "done" /\ render.result.success) =>
        render.result.path \in render.files

(***************************************************************************)
(* Two invocations at once.                                                *)
(***************************************************************************)

\* Both invocations are probes that were given the same output_dir.
SharedOutputDir ==
    /\ \A p \in Procs : pair.proc[p].kind = "probe"
    /\ \A p \in Procs : pair.proc[p].output_dir # "None"
    /\ pair.proc[1].output_dir = pair.proc[2].output_dir

SharedDirectoryInterferes ==
    /\ pair.pc = "run"
    /\ SharedOutputDir
    /\ \E p \in Procs :
           /\ pair.proc[p].at = "done"
           /\ pair.proc[p].found # pair.proc[p].alone
           /\ \E e \in pair.foreign : e.who = p

====
